---- MODULE Spec2Model ----
(***************************************************************************)
(* Shapescape NBT Replacer (shapescape_nbt_replacer/nbt_replacer.js).      *)
(*                                                                         *)
(* The module models                                                       *)
(*   - AdaptiveConcurrencyController: run, processQueue, recordCompletion, *)
(*     adjustConcurrency, waitAll, with the promise callbacks of           *)
(*     processQueue (then / catch / finally) as separate steps, since each *)
(*     is a separate microtask of the JavaScript event loop;               *)
(*   - main: the per-rule loop (validation, file discovery, submission,    *)
(*     Promise.allSettled, waitAll, aggregation of the counts);            *)
(*   - processFile, as seen from the controller: a read, then possibly a   *)
(*     write, then a result or an error.                                   *)
(*                                                                         *)
(* The controller is driven either by main (driver = "main") or by a free  *)
(* client that calls run at arbitrary moments (driver = "client"); the     *)
(* class is generic, and main only ever submits in batches.                *)
(***************************************************************************)
EXTENDS Integers, Sequences, FiniteSets, TLC

(***************************************************************************)
(* Bounds of the model.                                                    *)
(***************************************************************************)
MaxC == 4          \* largest configured ceiling
MaxJobs == 5       \* number of run calls of the free client
MaxRules == 2      \* number of rules of a configuration
NumFiles == 2      \* number of files on disk
MaxWidth == 2      \* children of a Compound or List tag
MaxPasses == 2     \* traversals of one tag
MaxChanged == 2    \* replacement count of a file with matching leaves
NumCpus == 1       \* cpus().length
MaxBatch == 7      \* number of tasks a client submits in one go
MaxCompletions == 12  \* number of run calls of the serial client

(***************************************************************************)
(* Program constants.                                                      *)
(***************************************************************************)
maxTimeHistory == 10
adjustmentInterval == 5

\* Date.now() differences: integer milliseconds. Two values are enough to
\* land below, inside and above the +-20% band.
Durations == {1, 4}

Files == 1..NumFiles
\* a task of the free client is no processFile call: it has no file
IsFileJob(job) == job.file \in Files

Max(a, b) == IF a >= b THEN a ELSE b
Min(a, b) == IF a <= b THEN a ELSE b

RECURSIVE SeqSum(_)
SeqSum(s) == IF s = <<>> THEN 0 ELSE Head(s) + SeqSum(Tail(s))

\* Array.prototype.slice(-n)
LastN(s, n) == IF Len(s) <= n THEN s ELSE SubSeq(s, Len(s) - n + 1, Len(s))

VARIABLES
    driver,                \* "client" | "main": who calls controller.run
    initialConcurrency,    \* the constructor's argument
    maxConcurrency,        \* this.maxConcurrency
    currentConcurrency,    \* this.currentConcurrency
    activeTasks,           \* this.activeTasks
    queue,                 \* this.queue: job ids, each standing for {task, resolve, reject}
    recentTimes,           \* this.recentTimes
    completedSinceAdjust,  \* this.completedSinceAdjust
    jobs,                  \* one record per run call, in call order
    cfg,                   \* parsed configuration of main
    mainPc,                \* position of main
    rIndex,                \* rule index of main's loop (1-based)
    files,                 \* result of fg for the current rule
    totalFilesChanged,
    totalStringsChanged,
    fsReads,               \* per file: number of fs.readFile calls
    fsWrites,              \* per file: number of completed fs.writeFile calls
    tree,                  \* the tag replaceStringsDeep works on (mutated in place)
    args,                  \* replaceStringsDeep's property, from, to, regex, notify
    before,                \* the tag as it was before the last traversal
    report,                \* the last traversal's return value and onReplace calls
    passes,                \* number of traversals made
    pf,                    \* one processFile call: its position and locals
    durations              \* every duration passed to recordCompletion, in call order

ctlVars == <<maxConcurrency, currentConcurrency, activeTasks, queue,
             recentTimes, completedSinceAdjust, durations>>
mainVars == <<cfg, mainPc, rIndex, files, totalFilesChanged, totalStringsChanged>>
vars == <<driver, initialConcurrency, maxConcurrency, currentConcurrency, activeTasks, queue,
          recentTimes, completedSinceAdjust, jobs, cfg, mainPc, rIndex, files,
          totalFilesChanged, totalStringsChanged, fsReads, fsWrites,
          tree, args, before, report, passes, pf, durations>>
engineVars == <<tree, args, before, report, passes, pf>>

(***************************************************************************)
(* Promise states and processFile results.                                 *)
(***************************************************************************)
Pending == [status |-> "pending", filesChanged |-> 0, stringsChanged |-> 0]
Rejected == [status |-> "rejected", filesChanged |-> 0, stringsChanged |-> 0]
Fulfilled(f, s) == [status |-> "fulfilled", filesChanged |-> f, stringsChanged |-> s]

\* A job: the queue entry {task, resolve, reject} made by run, the promise of
\* task() (result) and the promise run returned (future).
NewJob(file, rule) ==
    [pc |-> "queued", file |-> file, rule |-> rule, starts |-> 0, settles |-> 0,
     changed |-> 0, result |-> Pending, future |-> Pending]

JobIds == 1..Len(jobs)

(***************************************************************************)
(* AdaptiveConcurrencyController                                           *)
(***************************************************************************)
\* constructor
InitMax(c) == Max(1, c)
InitCurrent(c) == Max(1, c \div 2)

\* adjustConcurrency. avgTime and recentAvg are doubles in the source; the
\* comparisons recentAvg < avgTime * 0.8 and recentAvg > avgTime * 1.2 are
\* taken here over the rationals, cross-multiplied:
\*   sum3/3 < 0.8 * sum/len  <=>  5 * len * sum3 < 12 * sum
\*   sum3/3 > 1.2 * sum/len  <=>  5 * len * sum3 > 18 * sum
\* The function is only called with len = 5 or len = 10, where the double
\* comparison agrees with the rational one for integer durations.
IsFasterNoBand(times) == Len(times) * SeqSum(LastN(times, 3)) < 3 * SeqSum(times)
IsFaster(times) == 5 * Len(times) * SeqSum(LastN(times, 3)) < 12 * SeqSum(times)
IsSlower(times) == 5 * Len(times) * SeqSum(LastN(times, 3)) > 18 * SeqSum(times)

adjustConcurrencyUnclamped(times, cur, max) ==
    IF Len(times) < 3 THEN cur
    ELSE IF IsFaster(times) THEN cur + 1
    ELSE IF IsSlower(times) THEN cur - 1
    ELSE cur

adjustConcurrency(times, cur, max) ==
    IF Len(times) < 3 THEN cur
    ELSE IF IsFaster(times) /\ cur < max THEN Min(max, cur + 1)
    ELSE IF IsSlower(times) /\ cur > 1 THEN Max(1, cur - 1)
    ELSE cur

\* recordCompletion: the new [recentTimes, completedSinceAdjust, currentConcurrency]
PushTimeUnbounded(times, duration) == Append(times, duration)
PushTime(times, duration) ==
    LET t == Append(times, duration)
    IN IF Len(t) > maxTimeHistory THEN Tail(t) ELSE t

recordCompletion(times, since, cur, max, duration) ==
    LET t == PushTime(times, duration)
    IN IF since + 1 >= adjustmentInterval
       THEN [recentTimes |-> t, completedSinceAdjust |-> 0,
             currentConcurrency |-> adjustConcurrency(t, cur, max)]
       ELSE [recentTimes |-> t, completedSinceAdjust |-> since + 1,
             currentConcurrency |-> cur]

\* processQueue: the loop condition, the entry taken, and the loop. task() is
\* called inside the loop: a processFile task issues its fs.readFile at once.
CanStartBelowCeiling(q, active, limit) == Len(q) > 0 /\ active < maxConcurrency
CanStartOffByOne(q, active, limit) == Len(q) > 0 /\ active <= limit
CanStartIgnoresLimit(q, active, limit) == Len(q) > 0
CanStart(q, active, limit) == Len(q) > 0 /\ active < limit

ShiftKeepsEntry(q) == [entry |-> Head(q), rest |-> q]
ShiftLast(q) == [entry |-> q[Len(q)], rest |-> SubSeq(q, 1, Len(q) - 1)]
Shift(q) == [entry |-> Head(q), rest |-> Tail(q)]

StartTask(js, j) ==
    [js EXCEPT ![j].pc = "running", ![j].starts = Min(@ + 1, 2)]

ReadFile(reads, f) ==
    IF f \notin Files THEN reads ELSE [reads EXCEPT ![f] = Min(@ + 1, MaxRules + 1)]

\* (an `if` in place of the `while`)
processQueueOnce(st, limit) ==
    IF CanStart(st.queue, st.activeTasks, limit)
    THEN LET sh == Shift(st.queue)
         IN [queue |-> sh.rest,
             activeTasks |-> st.activeTasks + 1,
             jobs |-> StartTask(st.jobs, sh.entry),
             reads |-> ReadFile(st.reads, st.jobs[sh.entry].file)]
    ELSE st

RECURSIVE processQueue(_, _)
processQueue(st, limit) ==
    IF CanStart(st.queue, st.activeTasks, limit)
    THEN LET sh == Shift(st.queue)
         IN processQueue([queue |-> sh.rest,
                          activeTasks |-> st.activeTasks + 1,
                          jobs |-> StartTask(st.jobs, sh.entry),
                          reads |-> ReadFile(st.reads, st.jobs[sh.entry].file)],
                         limit)
    ELSE st

\* run: push the entry, then a dispatch pass
run(st, file, rule, limit) ==
    LET js == Append(st.jobs, NewJob(file, rule))
    IN processQueue([st EXCEPT !.queue = Append(st.queue, Len(js)), !.jobs = js], limit)

CtlState == [queue |-> queue, activeTasks |-> activeTasks, jobs |-> jobs, reads |-> fsReads]

\* waitAll's loop condition
BusyQueueOnly(active, q) == Len(q) > 0
Busy(active, q) == active > 0 \/ Len(q) > 0

(***************************************************************************)
(* NBT tags and replaceStringsDeep.                                        *)
(*                                                                         *)
(* A string is a sequence of characters. A tag is a String, a Compound     *)
(* (keys in stored order, vals[i] the child under keys[i]), a List, or a   *)
(* tag of another type (here Int), which the traversal never looks into.   *)
(***************************************************************************)
StringTag(v) == [id |-> "String", val |-> v]
IntTag == [id |-> "Int"]
CompoundTag(ks, vs) == [id |-> "Compound", keys |-> ks, vals |-> vs]
ListTag(xs) == [id |-> "List", items |-> xs]

\* rule.property ?? null
Null == "(null)"

\* oldVal === from
LiteralMatchSubstring(oldVal, from) ==
    \E i \in 1..(Len(oldVal) - Len(from) + 1) :
        SubSeq(oldVal, i, i + Len(from) - 1) = from
LiteralMatch(oldVal, from) == oldVal = from

\* oldVal.replace(regex, to) for a pattern made of literal characters, flags
\* "g", and a replacement without $ patterns: every occurrence of the
\* pattern, scanning from the left, is replaced.
IsPrefix(p, v) == Len(p) <= Len(v) /\ SubSeq(v, 1, Len(p)) = p

RECURSIVE RegexReplace(_, _, _)
RegexReplace(v, pattern, to) ==
    IF v = <<>> THEN <<>>
    ELSE IF IsPrefix(pattern, v)
    THEN to \o RegexReplace(SubSeq(v, Len(pattern) + 1, Len(v)), pattern, to)
    ELSE <<Head(v)>> \o RegexReplace(Tail(v), pattern, to)

\* the decision for one String child that passed the property test:
\* the value to write, and whether it is written and counted
LeafReplacementCountsMatch(r, oldVal) ==
    IF r.regex
    THEN [replaced |-> LiteralMatchSubstring(oldVal, r.from),
          newVal |-> RegexReplace(oldVal, r.from, r.to)]
    ELSE IF LiteralMatch(oldVal, r.from)
    THEN [replaced |-> TRUE, newVal |-> r.to]
    ELSE [replaced |-> FALSE, newVal |-> oldVal]
LeafReplacementNoWrite(r, oldVal) ==
    IF r.regex
    THEN [replaced |-> RegexReplace(oldVal, r.from, r.to) # oldVal, newVal |-> oldVal]
    ELSE [replaced |-> LiteralMatch(oldVal, r.from), newVal |-> oldVal]
LeafReplacement(r, oldVal) ==
    IF r.regex
    THEN LET newVal == RegexReplace(oldVal, r.from, r.to)
         IN [replaced |-> newVal # oldVal, newVal |-> newVal]
    ELSE IF LiteralMatch(oldVal, r.from)
    THEN [replaced |-> TRUE, newVal |-> r.to]
    ELSE [replaced |-> FALSE, newVal |-> oldVal]

\* !property: null and the empty string are falsy
NoProperty(property) == property = Null \/ property = ""

\* !property || property === k, for a child of a Compound; !property, for an
\* element of a List
PropertyOkCompoundAlways(property, k) == TRUE
PropertyOkCompound(property, k) == NoProperty(property) \/ property = k
PropertyOkListAlways(property) == TRUE
PropertyOkList(property) == NoProperty(property)

\* `[${i}]`, i counted from 0
IndexSegment(i) == <<"[0]", "[1]", "[2]", "[3]">>[i]

\* parts.join(" > ")
RECURSIVE Join(_)
Join(parts) ==
    IF parts = << >> THEN ""
    ELSE IF Len(parts) = 1 THEN parts[1]
    ELSE parts[1] \o " > " \o Join(Tail(parts))

\* onReplace(tagPath, oldVal, newVal), when notify is set; pathParts is the
\* path down to the replaced child
OnReplaceParentPath(r, pathParts, oldVal, newVal) ==
    IF r.notify
    THEN << [path |-> Join(SubSeq(pathParts, 1, Len(pathParts) - 1)),
             oldVal |-> oldVal, newVal |-> newVal] >>
    ELSE << >>
OnReplace(r, pathParts, oldVal, newVal) ==
    IF r.notify
    THEN << [path |-> Join(pathParts), oldVal |-> oldVal, newVal |-> newVal] >>
    ELSE << >>

NoChange(tag) == [tag |-> tag, changes |-> 0, events |-> << >>]

RECURSIVE replaceStringsDeep(_, _, _), CompoundLoop(_, _, _, _), ListLoop(_, _, _, _)

\* for (const k of tag.keys()): the keys from the i-th on
CompoundLoop(tag, i, r, pathParts) ==
    IF i > Len(tag.keys) THEN NoChange(tag)
    ELSE LET k == tag.keys[i]
             child == tag.vals[i]
             lr == LeafReplacement(r, child.val)
             step ==
                 IF child.id = "String" /\ PropertyOkCompound(r.property, k) /\ lr.replaced
                 THEN [tag |-> [tag EXCEPT !.vals[i] = StringTag(lr.newVal)],
                       changes |-> 1,
                       events |-> OnReplace(r, Append(pathParts, k), child.val, lr.newVal)]
                 ELSE LET sub == replaceStringsDeep(child, r, Append(pathParts, k))
                      IN [tag |-> [tag EXCEPT !.vals[i] = sub.tag],
                          changes |-> sub.changes,
                          events |-> sub.events]
             rest == CompoundLoop(step.tag, i + 1, r, pathParts)
         IN [tag |-> rest.tag,
             changes |-> step.changes + rest.changes,
             events |-> step.events \o rest.events]

\* for (let i = 0; i < len; i++): the elements from the i-th on
ListLoop(tag, i, r, pathParts) ==
    IF i > Len(tag.items) THEN NoChange(tag)
    ELSE LET child == tag.items[i]
             seg == IndexSegment(i)
             lr == LeafReplacement(r, child.val)
             step ==
                 IF child.id = "String" /\ PropertyOkList(r.property) /\ lr.replaced
                 THEN [tag |-> [tag EXCEPT !.items[i] = StringTag(lr.newVal)],
                       changes |-> 1,
                       events |-> OnReplace(r, Append(pathParts, seg), child.val, lr.newVal)]
                 ELSE LET sub == replaceStringsDeep(child, r, Append(pathParts, seg))
                      IN [tag |-> [tag EXCEPT !.items[i] = sub.tag],
                          changes |-> sub.changes,
                          events |-> sub.events]
             rest == ListLoop(step.tag, i + 1, r, pathParts)
         IN [tag |-> rest.tag,
             changes |-> step.changes + rest.changes,
             events |-> step.events \o rest.events]

replaceStringsDeep(tag, r, pathParts) ==
    IF tag.id = "String" THEN NoChange(tag)
    ELSE IF tag.id = "Compound" THEN CompoundLoop(tag, 1, r, pathParts)
    ELSE IF tag.id = "List" THEN ListLoop(tag, 1, r, pathParts)
    ELSE NoChange(tag)

\* The tags and rules the traversal is run on.
Keys == {"facing", "list"}
LeafValues == { <<"w">>, <<"w", "n">> }
FromValues == { <<"w">>, <<"w", "n">> }
ToValues == { <<"n">>, <<"w">>, <<"w", "n">> }

SeqsUpTo(S, n) == UNION { [1..m -> S] : m \in 0..n }
KeyLists(n) == { ks \in SeqsUpTo(Keys, n) : \A i, k \in DOMAIN ks : i # k => ks[i] # ks[k] }

LeafTags == { StringTag(v) : v \in LeafValues } \cup { IntTag }
FlatCompounds == { CompoundTag(<<k>>, <<x>>) : k \in Keys, x \in LeafTags }
\* the elements of a List tag are all of the list's one element type
ChildTags ==
    LeafTags
    \cup { ListTag(xs) : xs \in SeqsUpTo({ StringTag(v) : v \in LeafValues }, MaxWidth) }
    \cup { ListTag(xs) : xs \in SeqsUpTo({ IntTag }, MaxWidth) }
    \cup FlatCompounds
    \cup { ListTag(<<c>>) : c \in FlatCompounds }
RootTags ==
    UNION { { CompoundTag(ks, vs) : vs \in [DOMAIN ks -> ChildTags] } :
              ks \in KeyLists(MaxWidth) \ { << >> } }

Rules == [property : {Null, "", "facing"}, from : FromValues, to : ToValues,
          regex : BOOLEAN, notify : BOOLEAN]

NoTag == CompoundTag(<< >>, << >>)
NoRule == [property |-> Null, from |-> << >>, to |-> << >>, regex |-> FALSE,
           notify |-> FALSE]
NoReport == [changes |-> 0, events |-> << >>]
NoCall == [pc |-> "none"]

(***************************************************************************)
(* processFile: format resolution.                                         *)
(*                                                                         *)
(* NbtFile.read(bytes, opts) is the codec: for the bytes of one file it    *)
(* either throws or returns a file whose root is a tag, the same at every  *)
(* call with the same opts. A strategy is named by its opts; the retry     *)
(* strategy labelled "bedrockHeader" has the opts of the attempt labelled  *)
(* "bedrock", and "javaLike" is {littleEndian: false}.                     *)
(***************************************************************************)
DecodeOpts == {"bedrock+gzip", "bedrock", "bedrock+zlib", "auto", "littleEndian",
               "gzip", "zlib", "javaLike"}

\* what filePath.toLowerCase() ends with
Extensions == {".mcstructure.gz", ".mcstructure", ".nbt"}

\* the attempts array
Attempts(ext) ==
    (IF ext = ".mcstructure.gz" THEN <<"bedrock+gzip">> ELSE << >>)
    \o (IF ext = ".mcstructure" THEN <<"bedrock", "bedrock+zlib", "bedrock+gzip">> ELSE << >>)
    \o <<"auto", "littleEndian", "gzip", "zlib">>

\* the retryStrategies array
RetryStrategies == <<"auto", "bedrock", "littleEndian", "javaLike">>

DecodeError == [id |-> "Error"]
None == "(none)"

\* for (const a of attempts) { try { nbtFile = NbtFile.read(u8, a.opts); break }
\*                            catch (e) { lastErr = e } }
\* st: the strategies tried so far, the one that gave nbtFile, the one whose
\* error is lastErr
RECURSIVE TryAttemptsNoBreak(_, _, _)
TryAttemptsNoBreak(read, attempts, st) ==
    IF attempts = << >> THEN st
    ELSE LET a == Head(attempts)
         IN IF read[a] # DecodeError
            THEN TryAttemptsNoBreak(read, Tail(attempts),
                                    [st EXCEPT !.tried = Append(@, a), !.nbtFile = a])
            ELSE TryAttemptsNoBreak(read, Tail(attempts),
                                    [st EXCEPT !.tried = Append(@, a), !.lastErr = a])

RECURSIVE TryAttempts(_, _, _)
TryAttempts(read, attempts, st) ==
    IF attempts = << >> THEN st
    ELSE LET a == Head(attempts)
         IN IF read[a] # DecodeError
            THEN [st EXCEPT !.tried = Append(@, a), !.nbtFile = a]
            ELSE TryAttempts(read, Tail(attempts),
                             [st EXCEPT !.tried = Append(@, a), !.lastErr = a])

\* logAllStringTags: the number of String tags in the tag. (matchCtx only
\* marks the debug lines.)
RECURSIVE logAllStringTags(_), CountSeq(_)
CountSeq(kids) ==
    IF kids = << >> THEN 0 ELSE logAllStringTags(Head(kids)) + CountSeq(Tail(kids))

logAllStringTags(tag) ==
    IF tag.id = "String" THEN 1
    ELSE IF tag.id = "Compound" THEN CountSeq(tag.vals)
    ELSE IF tag.id = "List" THEN CountSeq(tag.items)
    ELSE 0

\* if (loggedCount === 0)
NeedsRetryAlways(loggedCount) == TRUE
NeedsRetry(loggedCount) == loggedCount = 0

\* for (const strat of retryStrategies) { try { tmp = NbtFile.read(...);
\*   cnt = logAllStringTags(tmp.root, ...); if (cnt > 0) { nbtFile = tmp; break } }
\*   catch (_) {} }
RECURSIVE TryRetriesAnyDecoded(_, _, _)
TryRetriesAnyDecoded(read, strategies, st) ==
    IF strategies = << >> THEN st
    ELSE LET strat == Head(strategies)
             st1 == [st EXCEPT !.retried = Append(@, strat)]
         IN IF read[strat] # DecodeError
            THEN [st1 EXCEPT !.nbtFile = strat]
            ELSE TryRetriesAnyDecoded(read, Tail(strategies), st1)

RECURSIVE TryRetries(_, _, _)
TryRetries(read, strategies, st) ==
    IF strategies = << >> THEN st
    ELSE LET strat == Head(strategies)
             st1 == [st EXCEPT !.retried = Append(@, strat)]
         IN IF read[strat] # DecodeError /\ logAllStringTags(read[strat]) > 0
            THEN [st1 EXCEPT !.nbtFile = strat]
            ELSE TryRetries(read, Tail(strategies), st1)

\* if (changed > 0)
ShouldWriteAlways(changed) == TRUE
ShouldWrite(changed) == changed > 0

(***************************************************************************)
(* Configurations of main.                                                 *)
(***************************************************************************)
\* A rule as main looks at it: is path non-empty, are from and to defined,
\* is regex === true, and does new RegExp(from, flags) succeed. (main treats a
\* regex rule that compiles exactly as a literal rule.)
RuleShapes ==
    { [path |-> TRUE, from |-> TRUE, to |-> TRUE, regex |-> FALSE, compiles |-> TRUE],
      [path |-> TRUE, from |-> TRUE, to |-> TRUE, regex |-> TRUE, compiles |-> FALSE],
      [path |-> FALSE, from |-> TRUE, to |-> TRUE, regex |-> FALSE, compiles |-> TRUE],
      [path |-> TRUE, from |-> FALSE, to |-> TRUE, regex |-> FALSE, compiles |-> TRUE],
      [path |-> TRUE, from |-> TRUE, to |-> FALSE, regex |-> FALSE, compiles |-> TRUE] }

RuleLists == UNION { [1..n -> RuleShapes] : n \in 1..MaxRules }

\* cfg.maxConcurrency: 0 stands for "absent or not a positive number"
ConfiguredMax(c) == IF c > 0 THEN c ELSE NumCpus * 2

MissingFields(rule) == ~rule.path \/ ~rule.from \/ ~rule.to
BadRegex(rule) == rule.regex /\ ~rule.compiles

\* fg(globPattern, {onlyFiles: true}): each path at most once
FileLists == { s \in UNION { [1..n -> Files] : n \in 0..NumFiles } :
                 \A i, k \in DOMAIN s : i # k => s[i] # s[k] }

NoCfg == [rules |-> <<>>, maxConcurrency |-> 0]

Init ==
    /\ tree = NoTag
    /\ args = NoRule
    /\ before = NoTag
    /\ report = NoReport
    /\ passes = 0
    /\ pf = NoCall
    /\ driver \in {"client", "main"}
    /\ \/ /\ driver = "client"
          /\ cfg = NoCfg
          /\ mainPc = "none"
          /\ initialConcurrency \in 0..MaxC
       \/ /\ driver = "main"
          /\ cfg \in [rules : RuleLists, maxConcurrency : 0..MaxC]
          /\ mainPc = "rule"
          /\ initialConcurrency = ConfiguredMax(cfg.maxConcurrency)
    /\ maxConcurrency = InitMax(initialConcurrency)
    /\ currentConcurrency = InitCurrent(initialConcurrency)
    /\ activeTasks = 0
    /\ queue = <<>>
    /\ recentTimes = <<>>
    /\ completedSinceAdjust = 0
    /\ durations = <<>>
    /\ jobs = <<>>
    /\ rIndex = 1
    /\ files = <<>>
    /\ totalFilesChanged = 0
    /\ totalStringsChanged = 0
    /\ fsReads = [f \in Files |-> 0]
    /\ fsWrites = [f \in Files |-> 0]

(***************************************************************************)
(* The free client: controller.run(task) at any moment.                    *)
(***************************************************************************)
Run ==
    /\ driver = "client"
    /\ Len(jobs) < MaxJobs
    /\ LET st == run(CtlState, 0, 0, currentConcurrency)
       IN /\ queue' = st.queue
          /\ activeTasks' = st.activeTasks
          /\ jobs' = st.jobs
          /\ fsReads' = st.reads
    /\ UNCHANGED <<engineVars, driver, initialConcurrency, maxConcurrency, currentConcurrency, recentTimes,
                   completedSinceAdjust, durations, mainVars, fsWrites>>

\* A task of the free client ends: its promise is fulfilled or rejected.
TaskEnd(j) ==
    /\ j \in JobIds
    /\ jobs[j].pc = "running"
    /\ ~IsFileJob(jobs[j])
    /\ \E r \in {Fulfilled(0, 0), Rejected} :
          jobs' = [jobs EXCEPT ![j].pc = "ended", ![j].result = r]
    /\ UNCHANGED <<engineVars, driver, initialConcurrency, ctlVars, mainVars, fsReads, fsWrites>>

(***************************************************************************)
(* processFile, as a task of the controller.                               *)
(***************************************************************************)
\* fs.readFile returns (or fails); decoding, the string probe and
\* replaceStringsDeep run synchronously after it. changed > 0 issues the write.
ReadDone(j) ==
    /\ j \in JobIds
    /\ jobs[j].pc = "running"
    /\ IsFileJob(jobs[j])
    /\ \/ jobs' = [jobs EXCEPT ![j].pc = "ended", ![j].result = Rejected]
       \/ jobs' = [jobs EXCEPT ![j].pc = "ended", ![j].result = Fulfilled(0, 0)]
       \/ jobs' = [jobs EXCEPT ![j].pc = "writing", ![j].changed = MaxChanged]
    /\ UNCHANGED <<engineVars, driver, initialConcurrency, ctlVars, mainVars, fsReads, fsWrites>>

\* fs.writeFile returns (or fails)
WriteDone(j) ==
    /\ j \in JobIds
    /\ jobs[j].pc = "writing"
    /\ \/ /\ jobs' = [jobs EXCEPT ![j].pc = "ended",
                                  ![j].result = Fulfilled(1, jobs[j].changed)]
          /\ fsWrites' = [fsWrites EXCEPT ![jobs[j].file] = Min(@ + 1, MaxRules + 1)]
       \/ /\ jobs' = [jobs EXCEPT ![j].pc = "ended", ![j].result = Rejected]
          /\ UNCHANGED fsWrites
    /\ UNCHANGED <<engineVars, driver, initialConcurrency, ctlVars, mainVars, fsReads>>

(***************************************************************************)
(* The callbacks processQueue chains on task().                            *)
(***************************************************************************)
Settle(js, j, outcome) ==
    [js EXCEPT ![j].pc = "settled", ![j].future = outcome,
               ![j].settles = Min(@ + 1, 2)]

\* resolve(result) of the then callback, reject(err) of the catch callback:
\* the resolve / reject of the entry the task was taken from
OnFulfilled(js, j) == Settle(js, j, js[j].result)

OnRejectedAbortsQueued(js, j) ==
    [k \in DOMAIN js |->
        IF k = j THEN Settle(js, j, js[j].result)[j]
        ELSE IF js[k].pc = "queued" THEN [js[k] EXCEPT !.future = Rejected]
        ELSE js[k]]
OnRejected(js, j) == Settle(js, j, js[j].result)

Completion(j, d) ==
    LET rc == recordCompletion(recentTimes, completedSinceAdjust,
                               currentConcurrency, maxConcurrency, d)
    IN /\ recentTimes' = rc.recentTimes
       /\ completedSinceAdjust' = rc.completedSinceAdjust
       /\ currentConcurrency' = rc.currentConcurrency
       /\ durations' = Append(durations, d)
       /\ jobs' = IF jobs[j].result.status = "fulfilled"
                  THEN OnFulfilled(jobs, j) ELSE OnRejected(jobs, j)
       /\ UNCHANGED <<engineVars, driver, initialConcurrency, maxConcurrency, activeTasks, queue, mainVars,
                      fsReads, fsWrites>>

\* .then((result) => { recordCompletion(duration); resolve(result) })
Then(j) ==
    /\ j \in JobIds
    /\ jobs[j].pc = "ended"
    /\ jobs[j].result.status = "fulfilled"
    /\ \E d \in Durations : Completion(j, d)

\* .catch((err) => { recordCompletion(...); reject(err) })
Catch(j) ==
    /\ j \in JobIds
    /\ jobs[j].pc = "ended"
    /\ jobs[j].result.status = "rejected"
    /\ \E d \in Durations : Completion(j, d)

\* .finally(() => { this.activeTasks--; this.processQueue() })
Finally(j) ==
    /\ j \in JobIds
    /\ jobs[j].pc = "settled"
    /\ LET st == processQueue([queue |-> queue,
                               activeTasks |-> activeTasks - 1,
                               jobs |-> [jobs EXCEPT ![j].pc = "finished"],
                               reads |-> fsReads],
                              currentConcurrency)
       IN /\ queue' = st.queue
          /\ activeTasks' = st.activeTasks
          /\ jobs' = st.jobs
          /\ fsReads' = st.reads
    /\ UNCHANGED <<engineVars, driver, initialConcurrency, maxConcurrency, currentConcurrency, recentTimes,
                   completedSinceAdjust, durations, mainVars, fsWrites>>

(***************************************************************************)
(* main                                                                    *)
(***************************************************************************)
RuleJobs(r) == { j \in JobIds : jobs[j].rule = r }

\* Head of the for loop up to `await fg(...)`: the loop test, the required
\* fields, the RegExp construction.
RuleHead ==
    /\ driver = "main"
    /\ mainPc = "rule"
    /\ IF rIndex > Len(cfg.rules)
       THEN mainPc' = "done"
       ELSE IF MissingFields(cfg.rules[rIndex]) \/ BadRegex(cfg.rules[rIndex])
       THEN mainPc' = "exit"
       ELSE mainPc' = "discover"
    /\ UNCHANGED <<engineVars, driver, initialConcurrency, ctlVars, jobs, cfg, rIndex, files, totalFilesChanged,
                   totalStringsChanged, fsReads, fsWrites>>

\* files.map((filePath) => controller.run(...)): one run per file, in order,
\* in one synchronous block
RECURSIVE SubmitAllTwice(_, _, _, _)
SubmitAllTwice(st, fl, r, limit) ==
    IF fl = <<>> THEN st
    ELSE SubmitAllTwice(run(run(st, Head(fl), r, limit), Head(fl), r, limit),
                        Tail(fl), r, limit)

RECURSIVE SubmitAll(_, _, _, _)
SubmitAll(st, fl, r, limit) ==
    IF fl = <<>> THEN st
    ELSE SubmitAll(run(st, Head(fl), r, limit), Tail(fl), r, limit)

\* fg resolves; no file: continue, else submit every file and await allSettled
Discover ==
    /\ driver = "main"
    /\ mainPc = "discover"
    /\ \E fl \in FileLists :
          /\ files' = fl
          /\ IF fl = <<>>
             THEN /\ rIndex' = rIndex + 1
                  /\ mainPc' = "rule"
                  /\ UNCHANGED <<queue, activeTasks, jobs, fsReads>>
             ELSE LET st == SubmitAll(CtlState, fl, rIndex, currentConcurrency)
                  IN /\ queue' = st.queue
                     /\ activeTasks' = st.activeTasks
                     /\ jobs' = st.jobs
                     /\ fsReads' = st.reads
                     /\ mainPc' = "allSettled"
                     /\ UNCHANGED rIndex
    /\ UNCHANGED <<engineVars, driver, initialConcurrency, maxConcurrency, currentConcurrency, recentTimes,
                   completedSinceAdjust, durations, cfg, totalFilesChanged,
                   totalStringsChanged, fsWrites>>

\* await Promise.allSettled(...) returns once every future of the rule is settled
AllSettled ==
    /\ driver = "main"
    /\ mainPc = "allSettled"
    /\ \A j \in RuleJobs(rIndex) : jobs[j].future.status # "pending"
    /\ mainPc' = "waitAll"
    /\ UNCHANGED <<engineVars, driver, initialConcurrency, ctlVars, jobs, cfg, rIndex, files, totalFilesChanged,
                   totalStringsChanged, fsReads, fsWrites>>

\* waitAll: the loop test; while busy, a 10 ms timer is awaited and the test
\* is taken again; else waitAll returns
WaitAll ==
    /\ driver = "main"
    /\ mainPc = "waitAll"
    /\ IF Busy(activeTasks, queue) THEN mainPc' = "waitAll" ELSE mainPc' = "aggregate"
    /\ UNCHANGED <<engineVars, driver, initialConcurrency, ctlVars, jobs, cfg, rIndex, files, totalFilesChanged,
                   totalStringsChanged, fsReads, fsWrites>>

\* for (const result of fileResults): fulfilled results are added, rejected
\* ones are logged. fileResults and the rule's promises go out of scope at the
\* end of the iteration: their job records are dropped.
SumFieldFilesOnly(js, ids, field) ==
    Cardinality({ j \in ids : js[j].future.filesChanged = 1 })

RECURSIVE SumField(_, _, _)
SumField(js, ids, field) ==
    IF ids = {} THEN 0
    ELSE LET j == CHOOSE x \in ids : TRUE
         IN (IF js[j].future.status = "fulfilled"
             THEN (IF field = "files" THEN js[j].future.filesChanged
                   ELSE js[j].future.stringsChanged)
             ELSE 0) + SumField(js, ids \ {j}, field)

Aggregate ==
    /\ driver = "main"
    /\ mainPc = "aggregate"
    /\ totalFilesChanged' = totalFilesChanged + SumField(jobs, RuleJobs(rIndex), "files")
    /\ totalStringsChanged' = totalStringsChanged + SumField(jobs, RuleJobs(rIndex), "strings")
    /\ rIndex' = rIndex + 1
    /\ mainPc' = "rule"
    /\ jobs' = <<>>
    /\ files' = <<>>
    /\ UNCHANGED <<engineVars, driver, initialConcurrency, ctlVars, cfg, fsReads, fsWrites>>

\* process.exit(1) ends the process: no callback runs afterwards
Alive == mainPc # "exit"

Next ==
    \/ Run
    \/ \E j \in JobIds : Alive /\ TaskEnd(j)
    \/ \E j \in JobIds : Alive /\ ReadDone(j)
    \/ \E j \in JobIds : Alive /\ WriteDone(j)
    \/ \E j \in JobIds : Alive /\ Then(j)
    \/ \E j \in JobIds : Alive /\ Catch(j)
    \/ \E j \in JobIds : Alive /\ Finally(j)
    \/ RuleHead
    \/ Discover
    \/ AllSettled
    \/ WaitAll
    \/ Aggregate

Spec == Init /\ [][Next]_vars

\* The controller under the free client alone.
InitClient == Init /\ driver = "client"

\* The controller under a client that submits a batch of tasks in one
\* synchronous block, tasks.map((t) => controller.run(t)), as main does with
\* the files of a rule, and then lets them run. The ceilings are those whose
\* working limit starts at 1 and can grow.
BatchCeilings == {2, 3}

InitBatch ==
    /\ tree = NoTag
    /\ args = NoRule
    /\ before = NoTag
    /\ report = NoReport
    /\ passes = 0
    /\ pf = NoCall
    /\ driver = "batch"
    /\ cfg = NoCfg
    /\ mainPc = "none"
    /\ initialConcurrency \in BatchCeilings
    /\ maxConcurrency = InitMax(initialConcurrency)
    /\ currentConcurrency = InitCurrent(initialConcurrency)
    /\ activeTasks = 0
    /\ queue = <<>>
    /\ recentTimes = <<>>
    /\ completedSinceAdjust = 0
    /\ durations = <<>>
    /\ jobs = <<>>
    /\ rIndex = 1
    /\ files = <<>>
    /\ totalFilesChanged = 0
    /\ totalStringsChanged = 0
    /\ fsReads = [f \in Files |-> 0]
    /\ fsWrites = [f \in Files |-> 0]

RunBatch ==
    /\ driver = "batch"
    /\ jobs = <<>>
    /\ LET st == SubmitAll(CtlState, [i \in 1..MaxBatch |-> 0], 0, currentConcurrency)
       IN /\ queue' = st.queue
          /\ activeTasks' = st.activeTasks
          /\ jobs' = st.jobs
          /\ fsReads' = st.reads
    /\ UNCHANGED <<engineVars, driver, initialConcurrency, maxConcurrency, currentConcurrency, recentTimes,
                   completedSinceAdjust, durations, mainVars, fsWrites>>

NextBatch ==
    \/ RunBatch
    \/ \E j \in JobIds : TaskEnd(j)
    \/ \E j \in JobIds : Then(j)
    \/ \E j \in JobIds : Catch(j)
    \/ \E j \in JobIds : Finally(j)

BatchSpec == InitBatch /\ [][NextBatch]_vars

(***************************************************************************)
(* The serial client: a loop of `await controller.run(task)`, so that one  *)
(* controller sees more than maxTimeHistory completions. Task j resolves   *)
(* when j is odd and rejects when j is even.                               *)
(***************************************************************************)
InitSerial ==
    /\ tree = NoTag
    /\ args = NoRule
    /\ before = NoTag
    /\ report = NoReport
    /\ passes = 0
    /\ pf = NoCall
    /\ driver = "serial"
    /\ cfg = NoCfg
    /\ mainPc = "none"
    /\ initialConcurrency \in 0..MaxC
    /\ maxConcurrency = InitMax(initialConcurrency)
    /\ currentConcurrency = InitCurrent(initialConcurrency)
    /\ activeTasks = 0
    /\ queue = <<>>
    /\ recentTimes = <<>>
    /\ completedSinceAdjust = 0
    /\ durations = <<>>
    /\ jobs = <<>>
    /\ rIndex = 1
    /\ files = <<>>
    /\ totalFilesChanged = 0
    /\ totalStringsChanged = 0
    /\ fsReads = [f \in Files |-> 0]
    /\ fsWrites = [f \in Files |-> 0]

RunSerial ==
    /\ driver = "serial"
    /\ Len(jobs) < MaxCompletions
    /\ \A j \in JobIds : jobs[j].pc = "finished"
    /\ LET st == run(CtlState, 0, 0, currentConcurrency)
       IN /\ queue' = st.queue
          /\ activeTasks' = st.activeTasks
          /\ jobs' = st.jobs
          /\ fsReads' = st.reads
    /\ UNCHANGED <<engineVars, driver, initialConcurrency, maxConcurrency, currentConcurrency, recentTimes,
                   completedSinceAdjust, durations, mainVars, fsWrites>>

TaskEndSerial(j) ==
    /\ driver = "serial"
    /\ j \in JobIds
    /\ jobs[j].pc = "running"
    /\ jobs' = [jobs EXCEPT ![j].pc = "ended",
                            ![j].result = IF j % 2 = 1 THEN Fulfilled(0, 0) ELSE Rejected]
    /\ UNCHANGED <<engineVars, driver, initialConcurrency, ctlVars, mainVars, fsReads, fsWrites>>

NextSerial ==
    \/ RunSerial
    \/ \E j \in JobIds : TaskEndSerial(j)
    \/ \E j \in JobIds : Then(j)
    \/ \E j \in JobIds : Catch(j)
    \/ \E j \in JobIds : Finally(j)

SerialSpec == InitSerial /\ [][NextSerial]_vars

(***************************************************************************)
(* A client under load: MaxBatch tasks submitted in one block to a        *)
(* controller whose working limit starts at 2 (ceiling 4), so that the     *)
(* fifth completion can lower the limit while jobs run and jobs wait.      *)
(* Task j resolves when j is odd and rejects when j is even.               *)
(***************************************************************************)
InitLoad ==
    /\ tree = NoTag
    /\ args = NoRule
    /\ before = NoTag
    /\ report = NoReport
    /\ passes = 0
    /\ pf = NoCall
    /\ driver = "load"
    /\ cfg = NoCfg
    /\ mainPc = "none"
    /\ initialConcurrency = 4
    /\ maxConcurrency = InitMax(initialConcurrency)
    /\ currentConcurrency = InitCurrent(initialConcurrency)
    /\ activeTasks = 0
    /\ queue = <<>>
    /\ recentTimes = <<>>
    /\ completedSinceAdjust = 0
    /\ durations = <<>>
    /\ jobs = <<>>
    /\ rIndex = 1
    /\ files = <<>>
    /\ totalFilesChanged = 0
    /\ totalStringsChanged = 0
    /\ fsReads = [f \in Files |-> 0]
    /\ fsWrites = [f \in Files |-> 0]

RunLoad ==
    /\ driver = "load"
    /\ jobs = <<>>
    /\ LET st == SubmitAll(CtlState, [i \in 1..MaxBatch |-> 0], 0, currentConcurrency)
       IN /\ queue' = st.queue
          /\ activeTasks' = st.activeTasks
          /\ jobs' = st.jobs
          /\ fsReads' = st.reads
    /\ UNCHANGED <<engineVars, driver, initialConcurrency, maxConcurrency, currentConcurrency, recentTimes,
                   completedSinceAdjust, durations, mainVars, fsWrites>>

TaskEndLoad(j) ==
    /\ driver = "load"
    /\ j \in JobIds
    /\ jobs[j].pc = "running"
    /\ jobs' = [jobs EXCEPT ![j].pc = "ended",
                            ![j].result = IF j % 2 = 1 THEN Fulfilled(0, 0) ELSE Rejected]
    /\ UNCHANGED <<engineVars, driver, initialConcurrency, ctlVars, mainVars, fsReads, fsWrites>>

NextLoad ==
    \/ RunLoad
    \/ \E j \in JobIds : TaskEndLoad(j)
    \/ \E j \in JobIds : Then(j)
    \/ \E j \in JobIds : Catch(j)
    \/ \E j \in JobIds : Finally(j)

LoadSpec == InitLoad /\ [][NextLoad]_vars

NextClient ==
    \/ Run
    \/ \E j \in JobIds : TaskEnd(j)
    \/ \E j \in JobIds : Then(j)
    \/ \E j \in JobIds : Catch(j)
    \/ \E j \in JobIds : Finally(j)

ClientSpec == InitClient /\ [][NextClient]_vars

\* Every started task terminates, and the event loop runs every pending
\* callback.
\* (Run is called a bounded number of times, so fairness of the steps of
\* some job is fairness for each.)
JobStep == \E j \in JobIds : TaskEnd(j) \/ Then(j) \/ Catch(j) \/ Finally(j)

FairClientSpec == ClientSpec /\ WF_vars(JobStep)

(***************************************************************************)
(* replaceStringsDeep on its own: a tag and a rule are drawn, and the      *)
(* traversal is run on the tag, then again on what it left.                *)
(***************************************************************************)
InitEngine ==
    /\ tree \in RootTags
    /\ args \in Rules
    /\ before = tree
    /\ report = NoReport
    /\ passes = 0
    /\ pf = NoCall
    /\ driver = "engine"
    /\ initialConcurrency = 1
    /\ maxConcurrency = 1
    /\ currentConcurrency = 1
    /\ cfg = NoCfg
    /\ mainPc = "none"
    /\ activeTasks = 0
    /\ queue = <<>>
    /\ recentTimes = <<>>
    /\ completedSinceAdjust = 0
    /\ durations = <<>>
    /\ jobs = <<>>
    /\ rIndex = 1
    /\ files = <<>>
    /\ totalFilesChanged = 0
    /\ totalStringsChanged = 0
    /\ fsReads = [f \in Files |-> 0]
    /\ fsWrites = [f \in Files |-> 0]

\* const changed = replaceStringsDeep(nbtFile.root, propFilter, from, to, null,
\*                                    useRegex, regex, [], onReplace)
Apply ==
    /\ driver = "engine"
    /\ passes < MaxPasses
    /\ LET res == replaceStringsDeep(tree, args, << >>)
       IN /\ tree' = res.tag
          /\ report' = [changes |-> res.changes, events |-> res.events]
    /\ before' = tree
    /\ passes' = passes + 1
    /\ UNCHANGED <<args, pf, driver, initialConcurrency, ctlVars, jobs, mainVars,
                   fsReads, fsWrites>>

NextEngine == Apply

EngineSpec == InitEngine /\ [][NextEngine]_vars

\* The same on tags with longer string values, in which a replacement can
\* leave a new occurrence of the pattern behind.
LongValues == { <<"w">>, <<"w", "n">>, <<"w", "w", "n">> }
LongChildTags ==
    { StringTag(v) : v \in LongValues } \cup { ListTag(<<StringTag(v)>>) : v \in LongValues }
LongRootTags ==
    UNION { { CompoundTag(ks, vs) : vs \in [DOMAIN ks -> LongChildTags] } :
              ks \in KeyLists(MaxWidth) \ { << >> } }

InitLong ==
    /\ tree \in LongRootTags
    /\ args \in Rules
    /\ before = tree
    /\ report = NoReport
    /\ passes = 0
    /\ pf = NoCall
    /\ driver = "engine"
    /\ initialConcurrency = 1
    /\ maxConcurrency = 1
    /\ currentConcurrency = 1
    /\ cfg = NoCfg
    /\ mainPc = "none"
    /\ activeTasks = 0
    /\ queue = <<>>
    /\ recentTimes = <<>>
    /\ completedSinceAdjust = 0
    /\ durations = <<>>
    /\ jobs = <<>>
    /\ rIndex = 1
    /\ files = <<>>
    /\ totalFilesChanged = 0
    /\ totalStringsChanged = 0
    /\ fsReads = [f \in Files |-> 0]
    /\ fsWrites = [f \in Files |-> 0]

LongSpec == InitLong /\ [][NextEngine]_vars

(***************************************************************************)
(* One processFile call on its own: a file (what the codec makes of its    *)
(* bytes under each strategy), its extension and a rule are drawn.         *)
(***************************************************************************)
\* a root without any String tag, and one with a String under "facing" and a
\* String inside the List under "list"
FileTrees ==
    { CompoundTag(<<"facing">>, <<IntTag>>),
      CompoundTag(<<"facing", "list">>,
                  <<StringTag(<<"w">>), ListTag(<<StringTag(<<"w">>)>>)>>) }

Codecs == [DecodeOpts -> {DecodeError} \cup FileTrees]

FileRules == [property : {Null, "facing", "list"}, from : { <<"w">> }, to : { <<"n">>, <<"w">> },
              regex : {FALSE}, notify : {FALSE}]

NotCalled == [id |-> "NotCalled"]

InitFile ==
    /\ pf = [pc |-> "reading", ext |-> ".nbt", tried |-> << >>, retried |-> << >>,
             accepted |-> None, used |-> None, err |-> None,
             seen |-> [o \in DecodeOpts |-> NotCalled], result |-> Pending]
       \/ pf = [pc |-> "reading", ext |-> ".mcstructure", tried |-> << >>, retried |-> << >>,
                accepted |-> None, used |-> None, err |-> None,
                seen |-> [o \in DecodeOpts |-> NotCalled], result |-> Pending]
       \/ pf = [pc |-> "reading", ext |-> ".mcstructure.gz", tried |-> << >>, retried |-> << >>,
                accepted |-> None, used |-> None, err |-> None,
                seen |-> [o \in DecodeOpts |-> NotCalled], result |-> Pending]
    /\ args \in FileRules
    /\ tree = NoTag
    /\ before = NoTag
    /\ report = NoReport
    /\ passes = 0
    /\ driver = "file"
    /\ initialConcurrency = 1
    /\ maxConcurrency = 1
    /\ currentConcurrency = 1
    /\ cfg = NoCfg
    /\ mainPc = "none"
    /\ activeTasks = 0
    /\ queue = <<>>
    /\ recentTimes = <<>>
    /\ completedSinceAdjust = 0
    /\ durations = <<>>
    /\ jobs = <<>>
    /\ rIndex = 1
    /\ files = <<>>
    /\ totalFilesChanged = 0
    /\ totalStringsChanged = 0
    /\ fsReads = [f \in Files |-> IF f = 1 THEN 1 ELSE 0]
    /\ fsWrites = [f \in Files |-> 0]

fileFrame == <<args, passes, driver, initialConcurrency, ctlVars, jobs, mainVars, fsReads>>

\* the catch of processFile: log and rethrow
Throw(e) == [pf EXCEPT !.pc = "done", !.err = e, !.result = Rejected]

\* await fs.readFile(filePath) rejects
ReadFails ==
    /\ driver = "file"
    /\ pf.pc = "reading"
    /\ pf' = Throw("readFile")
    /\ UNCHANGED <<fileFrame, fsWrites, tree, before, report>>

\* await fs.readFile(filePath) returns: the synchronous block up to
\* `await fs.writeFile`, or to the return or throw before it
ReadReturns ==
    /\ driver = "file"
    /\ pf.pc = "reading"
    /\ \E read \in Codecs, writeOk \in BOOLEAN :
          LET a == TryAttempts(read, Attempts(pf.ext),
                               [tried |-> << >>, nbtFile |-> None, lastErr |-> None])
              start == [retried |-> << >>, nbtFile |-> a.nbtFile]
              r == IF NeedsRetry(logAllStringTags(read[a.nbtFile]))
                   THEN TryRetries(read, RetryStrategies, start)
                   ELSE start
              called == { a.tried[i] : i \in DOMAIN a.tried }
                        \cup { r.retried[i] : i \in DOMAIN r.retried }
              res == replaceStringsDeep(read[r.nbtFile], args, << >>)
              pf1 == [pf EXCEPT !.tried = a.tried,
                                !.seen = [o \in DecodeOpts |->
                                            IF o \in { a.tried[i] : i \in DOMAIN a.tried }
                                            THEN read[o] ELSE NotCalled]]
              pf2 == [pf EXCEPT !.tried = a.tried, !.retried = r.retried,
                                !.accepted = a.nbtFile, !.used = r.nbtFile,
                                !.seen = [o \in DecodeOpts |->
                                            IF o \in called THEN read[o] ELSE NotCalled]]
          IN IF a.nbtFile = None
             THEN /\ pf' = [pf1 EXCEPT !.pc = "done", !.err = a.lastErr, !.result = Rejected]
                  /\ UNCHANGED <<tree, before, report>>
             ELSE /\ before' = read[r.nbtFile]
                  /\ tree' = res.tag
                  /\ report' = [changes |-> res.changes, events |-> res.events]
                  /\ IF ShouldWrite(res.changes)
                     THEN IF writeOk
                          THEN pf' = [pf2 EXCEPT !.pc = "writing"]
                          ELSE pf' = [pf2 EXCEPT !.pc = "done", !.err = "write",
                                                 !.result = Rejected]
                     ELSE pf' = [pf2 EXCEPT !.pc = "done", !.result = Fulfilled(0, 0)]
    /\ UNCHANGED <<fileFrame, fsWrites>>

\* await fs.writeFile(filePath, ...) returns: the file holds the new bytes
WriteReturns ==
    /\ driver = "file"
    /\ pf.pc = "writing"
    /\ pf' = [pf EXCEPT !.pc = "done", !.result = Fulfilled(1, report.changes)]
    /\ fsWrites' = [fsWrites EXCEPT ![1] = @ + 1]
    /\ UNCHANGED <<fileFrame, tree, before, report>>

\* await fs.writeFile(filePath, ...) rejects
WriteFails ==
    /\ driver = "file"
    /\ pf.pc = "writing"
    /\ pf' = Throw("writeFile")
    /\ UNCHANGED <<fileFrame, fsWrites, tree, before, report>>

NextFile == ReadFails \/ ReadReturns \/ WriteReturns \/ WriteFails

FileSpec == InitFile /\ [][NextFile]_vars

(***************************************************************************)
(* Claims                                                                  *)
(***************************************************************************)
Started(j) == jobs[j].starts > 0
IsSettled(j) == jobs[j].future.status # "pending"
InFlight == { j \in JobIds : jobs[j].pc \in {"running", "writing", "ended"} }

\* C1: with an integer ceiling C >= 1, the number of jobs started and not yet
\* completed never exceeds C, whatever the interleaving of run calls and
\* completions.
C1_ActiveAtMostCeiling ==
    initialConcurrency >= 1 =>
        /\ activeTasks <= initialConcurrency
        /\ Cardinality(InFlight) <= initialConcurrency

\* the ceiling is reached: as many jobs in flight as the ceiling allows, more
\* of them waiting
C1_Witness ==
    /\ driver = "client"
    /\ initialConcurrency = 1
    /\ activeTasks = 1
    /\ Cardinality(InFlight) = 1
    /\ Len(queue) = MaxJobs - 1

\* C2: every job submitted with run is started exactly once and its future
\* settles exactly once, with the outcome of its own task; and, every task
\* terminating, every submitted job eventually starts and settles.
C2_OnceSafe ==
    \A j \in JobIds :
        /\ jobs[j].starts <= 1
        /\ jobs[j].settles <= 1
        /\ (jobs[j].pc = "queued") <=> (jobs[j].starts = 0)
        /\ IsSettled(j) <=> (jobs[j].settles = 1)
        /\ IsSettled(j) => jobs[j].future = jobs[j].result

\* (Settled futures stay settled: a state in which every job submitted so far
\* is settled comes after each state with an unsettled job only if that job
\* has settled.)
C2_EveryJobOnce ==
    /\ []C2_OnceSafe
    /\ (\E j \in JobIds : ~IsSettled(j))
          ~> (\A j \in JobIds : IsSettled(j) /\ jobs[j].starts = 1)

\* every job of the free client has gone through the queue and settled, some
\* resolved and some rejected
C2_Witness ==
    /\ driver = "client"
    /\ Len(jobs) = MaxJobs
    /\ \A j \in JobIds : jobs[j].pc = "finished" /\ jobs[j].settles = 1
    /\ \E j \in JobIds : jobs[j].future.status = "rejected"
    /\ \E j \in JobIds : jobs[j].future.status = "fulfilled"

\* C3: the working limit starts at max(1, floor(C/2)) and always satisfies
\* 1 <= currentConcurrency <= maxConcurrency = max(1, C).
C3_LimitWithinBounds ==
    /\ maxConcurrency = (IF initialConcurrency >= 1 THEN initialConcurrency ELSE 1)
    /\ 1 <= currentConcurrency
    /\ currentConcurrency <= maxConcurrency
    /\ recentTimes = <<>> =>
          currentConcurrency =
              (IF initialConcurrency >= 2 THEN initialConcurrency \div 2 ELSE 1)

\* the limit has grown up to the ceiling and a further "faster" decision is due
C3_Witness ==
    /\ initialConcurrency = 2
    /\ currentConcurrency = 2
    /\ Len(recentTimes) = adjustmentInterval
    /\ completedSinceAdjust = 0

\* C4: at each tuning decision, with avg the mean of the whole history
\* (the triggering sample included) and recent the mean of its last 3 samples:
\* recent < 0.8 avg below the ceiling raises the limit by 1; else
\* recent > 1.2 avg above 1 lowers it by 1; otherwise it stays.
\* (recent < 0.8 avg  <=>  10 n sum3 < 24 sum, recent > 1.2 avg  <=>  10 n sum3 > 36 sum.)
C4_Decision ==
    (completedSinceAdjust = adjustmentInterval - 1 /\ completedSinceAdjust' = 0) =>
        LET h == recentTimes'
            n == Len(h)
            sum == SeqSum(h)
            sum3 == h[n] + h[n - 1] + h[n - 2]
        IN /\ n >= adjustmentInterval /\ n <= maxTimeHistory
           /\ SubSeq(h, 1, n - 1) = LastN(recentTimes, maxTimeHistory - 1)
           /\ IF 10 * n * sum3 < 24 * sum /\ currentConcurrency < maxConcurrency
              THEN currentConcurrency' = currentConcurrency + 1
              ELSE IF 10 * n * sum3 > 36 * sum /\ currentConcurrency > 1
              THEN currentConcurrency' = currentConcurrency - 1
              ELSE currentConcurrency' = currentConcurrency

C4_TuningRule == [][C4_Decision]_vars

\* 5 completions, the last 3 fast: the limit went from 2 to 3
C4_Witness ==
    /\ initialConcurrency = 4
    /\ recentTimes = <<4, 4, 1, 1, 1>>
    /\ completedSinceAdjust = 0
    /\ currentConcurrency = 3

\* the symmetric slow case: the limit went from 2 to 1
C4_WitnessSlow ==
    /\ initialConcurrency = 4
    /\ recentTimes = <<1, 1, 4, 4, 4>>
    /\ completedSinceAdjust = 0
    /\ currentConcurrency = 1

\* C5: jobs start in the order of their run calls (a job submitted earlier is
\* started no later than one submitted after it), and within a rule main
\* calls run in the order of the file list fg returned.
C5_FifoStart ==
    /\ \A a, b \in JobIds : (a < b /\ Started(b)) => Started(a)
    /\ \A i \in 1..Len(queue) : jobs[queue[i]].pc = "queued"
    /\ \A i, k \in 1..Len(queue) : i < k => queue[i] < queue[k]
    /\ (driver = "main" /\ mainPc \in {"allSettled", "waitAll", "aggregate"}) =>
          /\ Len(jobs) = Len(files)
          /\ \A i \in JobIds : jobs[i].file = files[i] /\ jobs[i].rule = rIndex

\* a slot freed by a completion was backfilled from the head of the queue
C5_Witness ==
    /\ driver = "client"
    /\ Len(jobs) = MaxJobs
    /\ jobs[1].pc = "finished"
    /\ jobs[3].pc = "running"
    /\ jobs[4].pc = "queued"
    /\ Len(queue) = 2

\* C6: when a job fails, one duration sample is recorded for it, its own
\* future alone is rejected, and its slot is released by a dispatch pass;
\* every other job is left as it is (a queued one may be started by that
\* pass) and still settles with its own outcome.
C6_CatchStep(j) ==
    (jobs[j].pc = "ended" /\ jobs[j].result.status = "rejected"
        /\ jobs'[j].pc # "ended") =>
        /\ jobs'[j].pc = "settled"
        /\ jobs'[j].future = jobs[j].result
        /\ jobs'[j].future.status = "rejected"
        /\ Len(recentTimes') = Min(Len(recentTimes) + 1, maxTimeHistory)
        /\ recentTimes'[Len(recentTimes')] \in Durations
        /\ activeTasks' = activeTasks
        /\ queue' = queue
        /\ \A k \in JobIds : k # j => jobs'[k] = jobs[k]

C6_FinallyStep(j) ==
    (jobs[j].pc = "settled" /\ jobs[j].future.status = "rejected"
        /\ jobs'[j].pc # "settled") =>
        LET started == { k \in JobIds : jobs[k].pc = "queued" /\ jobs'[k].pc # "queued" }
        IN /\ jobs'[j] = [jobs[j] EXCEPT !.pc = "finished"]
           /\ activeTasks' = activeTasks - 1 + Cardinality(started)
           /\ ~(Len(queue') > 0 /\ activeTasks' < currentConcurrency')
           /\ \A k \in JobIds \ {j} :
                 \/ jobs'[k] = jobs[k]
                 \/ /\ k \in started
                    /\ jobs'[k] = [jobs[k] EXCEPT !.pc = "running", !.starts = 1]

C7_Drained ==
    /\ activeTasks = 0
    /\ queue = <<>>
    /\ \A j \in JobIds : jobs[j].pc = "finished"

C7_Inv ==
    driver = "main" =>
        /\ mainPc \in {"aggregate", "rule", "discover", "done", "exit"} => C7_Drained
        /\ \A j \in JobIds : jobs[j].rule = rIndex
        /\ mainPc \in {"rule", "discover", "done", "exit"} => jobs = <<>>

C7_TotalsStep ==
    (totalFilesChanged' # totalFilesChanged \/ totalStringsChanged' # totalStringsChanged
        \/ rIndex' # rIndex) =>
        /\ C7_Drained
        /\ mainPc \in {"aggregate", "discover"}

C7_RulesSequential == []C7_Inv /\ [][C7_TotalsStep]_vars

\* the drain of the second rule has returned, after two jobs
C7_Witness ==
    /\ driver = "main"
    /\ mainPc = "aggregate"
    /\ rIndex = 2
    /\ Len(jobs) = 2
    /\ fsReads[1] = 2

\* C8: a rule with a missing field or a pattern that does not compile ends the
\* run before any file is processed: at the exit no file of any rule has been
\* read or written.
C8_NoPartialWork ==
    mainPc = "exit" => \A f \in Files : fsReads[f] = 0 /\ fsWrites[f] = 0

\* C9: a failing file does not end the run: every file of the rule and every
\* later rule is still processed, and the totals are the sums over the jobs
\* that succeeded, whatever the order of completion. (A job that succeeds
\* with filesChanged = 1 is one whose write completed: the sums are read off
\* the writes.)
AllRulesValid ==
    \A r \in DOMAIN cfg.rules : ~MissingFields(cfg.rules[r]) /\ ~BadRegex(cfg.rules[r])

RECURSIVE CountSum(_, _)
CountSum(f, S) ==
    IF S = {} THEN 0 ELSE LET x == CHOOSE y \in S : TRUE IN f[x] + CountSum(f, S \ {x})

C9_PerFileFailureNotFatal ==
    driver = "main" =>
        /\ AllRulesValid => mainPc # "exit"
        /\ mainPc = "aggregate" =>
              /\ Len(jobs) = Len(files)
              /\ \A j \in JobIds : jobs[j].starts = 1 /\ IsSettled(j)
        /\ mainPc \in {"rule", "discover", "done", "exit"} =>
              /\ totalFilesChanged = CountSum(fsWrites, Files)
              /\ totalStringsChanged = MaxChanged * CountSum(fsWrites, Files)
        /\ mainPc = "done" => rIndex = Len(cfg.rules) + 1

\* the run is over: in all two rules ran over two files each, three jobs
\* succeeded with a write and one did not
C9_Witness ==
    /\ driver = "main"
    /\ mainPc = "done"
    /\ Len(cfg.rules) = 2
    /\ fsReads[1] = 2 /\ fsReads[2] = 2
    /\ totalFilesChanged = 3
    /\ totalStringsChanged = 3 * MaxChanged

\* Positions in a tag: the sequences of child indices leading to a node.
KidsOf(t) ==
    IF t.id = "Compound" THEN t.vals ELSE IF t.id = "List" THEN t.items ELSE << >>

RECURSIVE NodeAt(_, _)
NodeAt(t, p) == IF p = << >> THEN t ELSE NodeAt(KidsOf(t)[Head(p)], Tail(p))

RECURSIVE Positions(_)
Positions(t) ==
    { << >> } \cup
    UNION { { <<i>> \o q : q \in Positions(KidsOf(t)[i]) } : i \in DOMAIN KidsOf(t) }

StringPositions(t) == { p \in Positions(t) : NodeAt(t, p).id = "String" }
ParentOf(t, p) == NodeAt(t, SubSeq(p, 1, Len(p) - 1))

\* A rule without a property filter: the field is left out, or left empty.
FilterAbsent(property) == property \in {Null, ""}

\* the leaf at p is a direct child of a mapping under a key the filter admits
\* (no filter, or the filter is that key), or an element of a sequence and
\* there is no filter
EligibleAt(t, p, property) ==
    /\ p # << >>
    /\ LET par == ParentOf(t, p)
       IN IF par.id = "Compound"
          THEN FilterAbsent(property) \/ property = par.keys[p[Len(p)]]
          ELSE FilterAbsent(property)

\* C10: in literal mode an eligible string leaf is replaced iff its whole value
\* equals `from`, and then holds `to` verbatim; an eligible leaf that only
\* contains `from`, or differs from it in any way, keeps its value and is not
\* counted.
C10_LiteralWholeValue ==
    (driver = "engine" /\ passes >= 1 /\ ~args.regex) =>
        LET elig == { p \in StringPositions(before) : EligibleAt(before, p, args.property) }
            hits == { p \in elig : NodeAt(before, p).val = args.from }
        IN /\ \A p \in hits : NodeAt(tree, p) = StringTag(args.to)
           /\ \A p \in elig \ hits : NodeAt(tree, p) = NodeAt(before, p)
           /\ report.changes = Cardinality(hits)

\* one leaf equal to `from` was replaced, next to one that contains `from` as
\* a proper substring and was left alone
C10_Witness ==
    /\ driver = "engine"
    /\ passes = 1
    /\ ~args.regex
    /\ args.from = <<"w">>
    /\ args.to = <<"n">>
    /\ args.property = Null
    /\ before = CompoundTag(<<"facing", "list">>,
                            <<StringTag(<<"w">>),
                              ListTag(<<StringTag(<<"w", "n">>), StringTag(<<"w">>)>>)>>)
    /\ tree = CompoundTag(<<"facing", "list">>,
                          <<StringTag(<<"n">>),
                            ListTag(<<StringTag(<<"w", "n">>), StringTag(<<"n">>)>>)>>)
    /\ report.changes = 2

\* C11: a string leaf directly under key k of a mapping is eligible iff the
\* rule has no property filter or the filter is k; a string leaf that is an
\* element of a sequence is eligible only without a filter, at any depth, also
\* when the sequence sits under the filtered key. Seen on the result: with a
\* literal rule whose `to` differs from `from`, the leaves that changed are
\* exactly the eligible ones holding `from`, and their number is the count;
\* with a pattern rule, no ineligible leaf changes.
ChangedLeaves == { p \in StringPositions(before) : NodeAt(tree, p) # NodeAt(before, p) }

C12_Matches(r, v) ==
    IF r.regex
    THEN \E i \in 1..(Len(v) - Len(r.from) + 1) : SubSeq(v, i, i + Len(r.from) - 1) = r.from
    ELSE v = r.from

C12_Idempotent ==
    (driver = "engine" /\ passes >= 2 /\ ~C12_Matches(args, args.to)) =>
        /\ report.changes = 0
        /\ tree = before

\* C12 (amended): the same for every literal rule whose `to` differs from
\* `from`, and for a pattern rule whose `to` holds no match of the pattern
\* when, in addition, no value written by the first traversal holds a match
\* of the pattern.
C12_SecondPassStep ==
    (/\ driver = "engine"
     /\ passes >= 1
     /\ passes' = passes + 1
     /\ ~C12_Matches(args, args.to)
     /\ args.regex => \A p \in ChangedLeaves : ~C12_Matches(args, NodeAt(tree, p).val)) =>
        /\ report'.changes = 0
        /\ tree' = tree

C12_IdempotentAmended == [][C12_SecondPassStep]_vars

\* pattern w, to n: "wn" became "nn" in the first traversal, and the second
\* one found nothing to replace
C12_Witness ==
    /\ driver = "engine"
    /\ passes = 2
    /\ args.regex
    /\ args.from = <<"w">>
    /\ args.to = <<"n">>
    /\ args.property = Null
    /\ tree = CompoundTag(<<"facing">>, <<StringTag(<<"n", "n">>)>>)
    /\ report.changes = 0

\* C13: one traversal reports each replacement once. The count is the number
\* of leaves overwritten; with notify on there is one event per overwritten
\* leaf, carrying its path from the root (keys and [i] indices), its old and
\* its new value, the events in depth-first order (keys in stored order,
\* elements in index order); with notify off there is no event and the count
\* is the same.
RECURSIVE PathOf(_, _)
PathOf(t, p) ==
    IF p = << >> THEN << >>
    ELSE << (IF t.id = "Compound" THEN t.keys[Head(p)] ELSE IndexSegment(Head(p))) >>
         \o PathOf(KidsOf(t)[Head(p)], Tail(p))

\* depth-first order of two leaves
RECURSIVE Precedes(_, _)
Precedes(p, q) ==
    /\ p # << >> /\ q # << >>
    /\ \/ Head(p) < Head(q)
       \/ Head(p) = Head(q) /\ Precedes(Tail(p), Tail(q))

\* the leaves the traversal wrote: in literal mode the eligible leaves that
\* held `from` (also when `to` is the same string), in pattern mode the
\* leaves whose value changed
Overwritten ==
    IF args.regex THEN ChangedLeaves
    ELSE { p \in StringPositions(before) :
             EligibleAt(before, p, args.property) /\ NodeAt(before, p).val = args.from }

EventOf(p) ==
    [path |-> Join(PathOf(before, p)), oldVal |-> NodeAt(before, p).val,
     newVal |-> NodeAt(tree, p).val]

C13_ReportedOnce ==
    (driver = "engine" /\ passes >= 1) =>
        /\ report.changes = Cardinality(Overwritten)
        /\ ~args.notify => report.events = << >>
        /\ args.notify =>
              /\ Len(report.events) = Cardinality(Overwritten)
              /\ \A i \in DOMAIN report.events :
                    \E p \in Overwritten : report.events[i] = EventOf(p)
              /\ \A i, k \in DOMAIN report.events :
                    i < k => \E p, q \in Overwritten :
                                /\ report.events[i] = EventOf(p)
                                /\ report.events[k] = EventOf(q)
                                /\ Precedes(p, q)

\* three replacements at different depths, announced in traversal order
C13_Witness ==
    /\ driver = "engine"
    /\ passes = 1
    /\ args.notify
    /\ report.changes = 3
    /\ report.events =
          << [path |-> "list > [0]", oldVal |-> <<"w">>, newVal |-> <<"n">>],
             [path |-> "list > [1]", oldVal |-> <<"w">>, newVal |-> <<"n">>],
             [path |-> "facing", oldVal |-> <<"w">>, newVal |-> <<"n">>] >>

\* C14: format resolution tries the candidates in their fixed order (those of
\* the extension first, then auto, littleEndian, gzip, zlib) and accepts the
\* first that decodes without error, trying no later one; when every
\* candidate fails, the job fails with the error of the last candidate tried
\* and the file is not written.
C14_Candidates(ext) ==
    CASE ext = ".mcstructure.gz" ->
            <<"bedrock+gzip", "auto", "littleEndian", "gzip", "zlib">>
      [] ext = ".mcstructure" ->
            <<"bedrock", "bedrock+zlib", "bedrock+gzip", "auto", "littleEndian", "gzip", "zlib">>
      [] OTHER -> <<"auto", "littleEndian", "gzip", "zlib">>

C14_FirstDecodableWins ==
    (driver = "file" /\ pf.pc # "reading" /\ pf.err # "readFile") =>
        LET c == C14_Candidates(pf.ext)
            n == Len(pf.tried)
        IN /\ n >= 1 /\ n <= Len(c)
           /\ pf.tried = SubSeq(c, 1, n)
           /\ \A i \in 1..(n - 1) : pf.seen[pf.tried[i]] = DecodeError
           /\ IF pf.seen[pf.tried[n]] # DecodeError
              THEN pf.accepted = pf.tried[n]
              ELSE /\ n = Len(c)
                   /\ pf.accepted = None
                   /\ pf.pc = "done"
                   /\ pf.result = Rejected
                   /\ pf.err = c[n]
                   /\ fsWrites[1] = 0

\* a .mcstructure file that only decodes with the fourth candidate
C14_Witness ==
    /\ driver = "file"
    /\ pf.ext = ".mcstructure"
    /\ pf.tried = <<"bedrock", "bedrock+zlib", "bedrock+gzip", "auto">>
    /\ pf.accepted = "auto"
    /\ pf.result = Fulfilled(1, 2)

\* a .mcstructure.gz file that no candidate decodes
C14_WitnessAllFail ==
    /\ driver = "file"
    /\ pf.ext = ".mcstructure.gz"
    /\ Len(pf.tried) = 5
    /\ pf.result = Rejected
    /\ pf.err = "zlib"

\* the string leaves of t the rule would replace: eligible under its property
\* filter and matching its `from`
MatchingLeaves(t, r) ==
    { p \in StringPositions(t) :
        EligibleAt(t, p, r.property) /\ C12_Matches(r, NodeAt(t, p).val) }

Decoded(o) == pf.seen[o] # DecodeError /\ pf.seen[o] # NotCalled

C15_RetryOrder == <<"auto", "bedrock", "littleEndian", "javaLike">>

\* C15 (as stated): the retry pass is attempted exactly when the accepted tree
\* holds no String leaf that passes the rule's filters (property and match);
\* a retried tree replaces the accepted one only if it holds at least one
\* matching String leaf, and the first such strategy in order wins.
C15_RetryOnNoMatch ==
    (driver = "file" /\ pf.accepted # None) =>
        LET n == Len(pf.retried)
            hit(o) == Decoded(o) /\ MatchingLeaves(pf.seen[o], args) # {}
        IN /\ (n > 0) <=> (MatchingLeaves(pf.seen[pf.accepted], args) = {})
           /\ pf.retried = SubSeq(C15_RetryOrder, 1, n)
           /\ \A i \in 1..(n - 1) : ~hit(pf.retried[i])
           /\ IF n > 0 /\ hit(pf.retried[n])
              THEN pf.used = pf.retried[n]
              ELSE pf.used = pf.accepted /\ n \in {0, Len(C15_RetryOrder)}
           /\ before = pf.seen[pf.used]

\* C15 (amended): the retry pass is attempted exactly when the accepted tree
\* holds no String leaf at all, whatever the rule's filters; a retried tree
\* replaces the accepted one only if it holds at least one String leaf, the
\* first such strategy in order wins, and otherwise the accepted tree is used.
C15_RetryOnNoString ==
    (driver = "file" /\ pf.accepted # None) =>
        LET n == Len(pf.retried)
            hit(o) == Decoded(o) /\ StringPositions(pf.seen[o]) # {}
        IN /\ (n > 0) <=> (StringPositions(pf.seen[pf.accepted]) = {})
           /\ pf.retried = SubSeq(C15_RetryOrder, 1, n)
           /\ \A i \in 1..(n - 1) : ~hit(pf.retried[i])
           /\ IF n > 0 /\ hit(pf.retried[n])
              THEN pf.used = pf.retried[n]
              ELSE pf.used = pf.accepted /\ n \in {0, Len(C15_RetryOrder)}
           /\ before = pf.seen[pf.used]

\* "auto" decoded a root without strings; among the retries "bedrock" failed
\* and "littleEndian" gave a root with strings, which the replacement ran on
C15_Witness ==
    /\ driver = "file"
    /\ pf.ext = ".nbt"
    /\ pf.accepted = "auto"
    /\ pf.retried = <<"auto", "bedrock", "littleEndian">>
    /\ pf.seen["bedrock"] = DecodeError
    /\ pf.used = "littleEndian"
    /\ args.property = Null
    /\ report.changes = 2

\* C16: a job writes its file back iff the mutation pass made at least one
\* replacement. A successful job returns filesChanged = 1 and
\* stringsChanged = n > 0 after exactly one write of the file, or
\* filesChanged = 0 and stringsChanged = 0 without any write; a file without
\* an eligible matching leaf is never written and adds zero to both counters.
C16_WriteAttempted ==
    pf.pc = "writing" \/ fsWrites[1] > 0 \/ pf.err \in {"write", "writeFile"}

C16_WriteIffChanged ==
    (driver = "file" /\ pf.pc # "reading") =>
        /\ fsWrites[1] <= 1
        /\ C16_WriteAttempted <=> (pf.accepted # None /\ report.changes > 0)
        /\ fsWrites[1] = 1 <=> pf.result = Fulfilled(1, report.changes)
        /\ pf.result.status = "fulfilled" =>
              \/ /\ pf.result = Fulfilled(1, report.changes)
                 /\ report.changes > 0
                 /\ fsWrites[1] = 1
              \/ /\ pf.result = Fulfilled(0, 0)
                 /\ report.changes = 0
                 /\ fsWrites[1] = 0
        /\ (pf.accepted # None /\ MatchingLeaves(before, args) = {}) =>
              /\ pf.result = Fulfilled(0, 0)
              /\ fsWrites[1] = 0
              /\ tree = before

\* the file decoded, its strings are not under the filtered key: no write
C16_Witness ==
    /\ driver = "file"
    /\ pf.pc = "done"
    /\ args.property = "list"
    /\ StringPositions(before) # {}
    /\ pf.result = Fulfilled(0, 0)
    /\ fsWrites[1] = 0

\* the other case: one replacement, one write
C16_WitnessWritten ==
    /\ driver = "file"
    /\ pf.pc = "done"
    /\ args.property = "facing"
    /\ pf.result = Fulfilled(1, 1)
    /\ fsWrites[1] = 1

\* C17: the traversal changes nothing but the values of replaced string
\* leaves. The tag keeps its shape (the same keys in the same stored order,
\* the same list lengths and element positions, the same type at every
\* position), every leaf of another type is unchanged, and every string leaf
\* that is ineligible or does not match keeps its value.
SameShape(s, t) ==
    /\ Positions(s) = Positions(t)
    /\ \A p \in Positions(s) :
          /\ NodeAt(s, p).id = NodeAt(t, p).id
          /\ NodeAt(s, p).id = "Compound" => NodeAt(s, p).keys = NodeAt(t, p).keys
          /\ NodeAt(s, p).id = "List" =>
                Len(NodeAt(s, p).items) = Len(NodeAt(t, p).items)

C18_ActiveAtMostLimit == activeTasks <= currentConcurrency

\* C18 (amended): a job is started only below the working limit, so that
\* after each step that starts jobs activeTasks <= currentConcurrency, and
\* activeTasks <= maxConcurrency always; activeTasks comes to exceed
\* currentConcurrency only by a step of the feedback loop that lowers the
\* limit by 1 while jobs are in flight, and then no job is started until
\* completions have brought activeTasks below the limit again.
C18_Step ==
    /\ activeTasks' > activeTasks => activeTasks' <= currentConcurrency'
    /\ (\E j \in JobIds : jobs[j].pc = "queued" /\ jobs'[j].pc # "queued") =>
          activeTasks' <= currentConcurrency'
    /\ (activeTasks <= currentConcurrency /\ activeTasks' > currentConcurrency') =>
          /\ currentConcurrency' = currentConcurrency - 1
          /\ activeTasks' = activeTasks
          /\ completedSinceAdjust' = 0

C18_StartsBelowLimit == [](activeTasks <= maxConcurrency) /\ [][C18_Step]_vars

\* the fifth completion lowered the limit from 2 to 1 while two jobs still
\* held a slot
C18_Witness ==
    /\ driver = "client"
    /\ activeTasks = 2
    /\ currentConcurrency = 1
    /\ Len(recentTimes) = adjustmentInterval
    /\ completedSinceAdjust = 0

\* C19: once a submit, or the completion handling of a job (the duration
\* recorded, activeTasks decremented, the dispatch pass made) has finished,
\* there is no state with a non-empty queue and activeTasks below
\* currentConcurrency: a slot freed by a completion, or added by a limit
\* increase, is filled from the head of the queue in that same handling,
\* whatever other jobs are still running.
C19_SlotFree == Len(queue) > 0 /\ activeTasks < currentConcurrency

\* no job is between its then / catch callback and its finally callback
C19_NoHandling == \A j \in JobIds : jobs[j].pc # "settled"

C19_Step ==
    LET submit == Len(jobs') > Len(jobs)
        handled == \E j \in JobIds : jobs[j].pc = "settled" /\ jobs'[j].pc = "finished"
        started == { j \in 1..Len(jobs') :
                       /\ j > Len(jobs) \/ jobs[j].pc = "queued"
                       /\ jobs'[j].pc # "queued" }
    IN /\ (submit \/ handled) =>
             /\ ~(Len(queue') > 0 /\ activeTasks' < currentConcurrency')
             /\ \A j \in started : \A i \in 1..Len(queue') : j < queue'[i]
       /\ started # {} => (submit \/ handled)

C19_Backfill == [](C19_NoHandling => ~C19_SlotFree) /\ [][C19_Step]_vars

\* the fifth completion raised the limit from 1 to 2, and the dispatch pass of
\* that job started the next two jobs of the queue together
C19_Witness ==
    /\ driver = "batch"
    /\ initialConcurrency = 2
    /\ currentConcurrency = 2
    /\ Len(recentTimes) = adjustmentInterval
    /\ jobs[5].pc = "finished"
    /\ jobs[6].pc = "running"
    /\ jobs[7].pc = "running"
    /\ activeTasks = 2

\* C20: every job completion, fulfilled or rejected, appends exactly one
\* duration to recentTimes, and nothing else changes the history; beyond
\* maxTimeHistory entries the oldest is dropped, so after n completions
\* recentTimes is the last min(n, maxTimeHistory) durations in completion
\* order. completedSinceAdjust is n modulo adjustmentInterval: the limit is
\* re-decided at the 5th, 10th, 15th ... completion and nowhere else, and a
\* decision moves it by at most 1.
C20_History ==
    /\ recentTimes = LastN(durations, maxTimeHistory)
    /\ Len(recentTimes) = Min(Len(durations), maxTimeHistory)
    /\ completedSinceAdjust = Len(durations) % adjustmentInterval

C20_Step ==
    LET completed == { j \in 1..Min(Len(jobs), Len(jobs')) :
                         jobs[j].pc = "ended" /\ jobs'[j].pc = "settled" }
        n == Len(durations')
    IN /\ Cardinality(completed) <= 1
       /\ n = Len(durations) + Cardinality(completed)
       /\ SubSeq(durations', 1, Len(durations)) = durations
       /\ completed = {} => UNCHANGED <<recentTimes, completedSinceAdjust, currentConcurrency>>
       /\ completed # {} =>
             /\ recentTimes' = LastN(Append(recentTimes, durations'[n]), maxTimeHistory)
             /\ n % adjustmentInterval # 0 => currentConcurrency' = currentConcurrency
             /\ currentConcurrency' - currentConcurrency \in {-1, 0, 1}

C20_RollingHistory == []C20_History /\ [][C20_Step]_vars

\* the eleventh completion pushed the first duration out of the history;
\* the tenth job was rejected and the eleventh fulfilled
C20_Witness ==
    /\ driver = "serial"
    /\ Len(durations) = maxTimeHistory + 1
    /\ durations[1] = 4
    /\ recentTimes = <<1, 1, 1, 1, 1, 1, 1, 1, 1, 1>>
    /\ jobs[10].future.status = "rejected"
    /\ jobs[11].future.status = "fulfilled"

\* the tenth completion, a rejection, re-decided the limit
C20_WitnessTenth ==
    /\ driver = "serial"
    /\ initialConcurrency = 4
    /\ durations = <<4, 4, 1, 1, 1, 1, 1, 4, 4, 4>>
    /\ completedSinceAdjust = 0
    /\ jobs[10].pc = "settled"
    /\ currentConcurrency = 2

\* C21: when the retry pass ran and no retry strategy helped (each one threw
\* or gave a tree without a String tag), every retry strategy was tried, the
\* traversal ran on the tree accepted by the attempts, and the call returned
\* normally: no error of a retry strategy reaches the caller.
C21_NoneHelped ==
    /\ pf.retried # << >>
    /\ \A i \in DOMAIN pf.retried :
          ~(Decoded(pf.retried[i]) /\ logAllStringTags(pf.seen[pf.retried[i]]) > 0)

C21_RetryFailureIgnored ==
    (driver = "file" /\ pf.pc = "done" /\ C21_NoneHelped) =>
        /\ pf.retried = RetryStrategies
        /\ pf.used = pf.accepted
        /\ before = pf.seen[pf.accepted]
        /\ tree = before
        /\ pf.err = None
        /\ pf.result = Fulfilled(0, 0)
        /\ fsWrites[1] = 0

\* the accepted tree has no String; two retry strategies threw, the other two
\* decoded without a String; the call returned {filesChanged: 0}
C21_Witness ==
    /\ driver = "file"
    /\ pf.pc = "done"
    /\ pf.accepted = "auto"
    /\ pf.retried = RetryStrategies
    /\ pf.seen["bedrock"] = DecodeError
    /\ pf.seen["javaLike"] = DecodeError
    /\ Decoded("littleEndian")
    /\ pf.used = "auto"
    /\ pf.result = Fulfilled(0, 0)

\* C22: in pattern mode an eligible string leaf with value v is replaced,
\* counted and (with notify on) reported iff v' = substitute(v, pattern, to)
\* differs from v, and then holds v'; an eligible leaf on which the pattern
\* matches while the substitution gives v back keeps its value and is not
\* counted.
C22_Substitute(p) == RegexReplace(NodeAt(before, p).val, args.from, args.to)

C22_PatternReplaceIffChanged ==
    (driver = "engine" /\ passes >= 1 /\ args.regex) =>
        LET elig == { p \in StringPositions(before) : EligibleAt(before, p, args.property) }
            hits == { p \in elig : C22_Substitute(p) # NodeAt(before, p).val }
        IN /\ \A p \in hits : NodeAt(tree, p) = StringTag(C22_Substitute(p))
           /\ \A p \in elig \ hits : NodeAt(tree, p) = NodeAt(before, p)
           /\ report.changes = Cardinality(hits)
           /\ { report.events[i] : i \in DOMAIN report.events } =
                 IF args.notify THEN { EventOf(p) : p \in hits } ELSE {}

\* the pattern w matches both leaves and is replaced by w: nothing is
\* rewritten, nothing counted
C22_Witness ==
    /\ driver = "engine"
    /\ passes = 1
    /\ args.regex
    /\ args.from = <<"w">>
    /\ args.to = <<"w">>
    /\ args.property = Null
    /\ before = CompoundTag(<<"facing", "list">>,
                            <<StringTag(<<"w">>), ListTag(<<StringTag(<<"w", "n">>)>>)>>)
    /\ tree = before
    /\ report.changes = 0

\* the pattern w occurs inside the second leaf: both leaves change
C22_WitnessChanged ==
    /\ driver = "engine"
    /\ passes = 1
    /\ args.regex
    /\ args.notify
    /\ args.from = <<"w">>
    /\ args.to = <<"n">>
    /\ args.property = Null
    /\ before = CompoundTag(<<"facing", "list">>,
                            <<StringTag(<<"w">>), ListTag(<<StringTag(<<"w", "n">>)>>)>>)
    /\ tree = CompoundTag(<<"facing", "list">>,
                          <<StringTag(<<"n">>), ListTag(<<StringTag(<<"n", "n">>)>>)>>)
    /\ report.changes = 2
    /\ Len(report.events) = 2

\* C23: every counted replacement changes the document: the count returned by
\* the traversal is the number of leaves whose value differs from the decoded
\* one (also for a literal rule whose `to` equals its `from`), and the file is
\* written, and reported with filesChanged = 1, only if the tree after the
\* traversal differs from the tree that was decoded.
C23_CountedReplacementChanges ==
    (driver = "file" /\ pf.pc \in {"writing", "done"} /\ pf.used # None) =>
        /\ report.changes = Cardinality(ChangedLeaves)
        /\ pf.pc = "writing" => tree # before
        /\ fsWrites[1] > 0 => tree # before
        /\ pf.result.filesChanged = 1 => tree # before

\* C24: no two jobs work on the same file at the same time. While a job is
\* between the start of its task (fs.readFile issued) and the end of its
\* task (the write returned, or the return or throw before it), no other job
\* on the same file is in that span; a read of a file is issued only when no
\* job holds that file; and the jobs of a rule have all left that span when
\* main goes on to the next rule, also when several rules match the file.
C24_Holds(js, j) == IsFileJob(js[j]) /\ js[j].pc \in {"running", "writing"}

C24_Exclusive ==
    driver = "main" =>
        \A j, k \in JobIds :
            (j # k /\ C24_Holds(jobs, j) /\ C24_Holds(jobs, k)) => jobs[j].file # jobs[k].file

C24_Step ==
    driver = "main" =>
        /\ \A f \in Files :
              fsReads'[f] # fsReads[f] =>
                  /\ \A k \in JobIds : C24_Holds(jobs, k) => jobs[k].file # f
                  /\ Cardinality({ j \in 1..Len(jobs') :
                                     C24_Holds(jobs', j) /\ jobs'[j].file = f }) = 1
        /\ \A f \in Files :
              fsWrites'[f] # fsWrites[f] =>
                  Cardinality({ j \in JobIds : C24_Holds(jobs, j) /\ jobs[j].file = f }) = 1
        /\ Len(jobs') < Len(jobs) => \A j \in JobIds : jobs[j].pc \in {"settled", "finished"}
        /\ rIndex' # rIndex => \A j \in JobIds : ~C24_Holds(jobs, j)

C24_OneJobPerFile == []C24_Exclusive /\ [][C24_Step]_vars

\* both rules match file 1: the job of the first rule has written it, the job
\* of the second rule is writing it, next to a job on file 2
C24_Witness ==
    /\ driver = "main"
    /\ rIndex = 2
    /\ fsReads[1] = 2
    /\ fsWrites[1] = 1
    /\ Len(jobs) = 2
    /\ \E j, k \in JobIds :
          /\ jobs[j].file = 1 /\ jobs[j].pc = "writing"
          /\ jobs[k].file = 2 /\ jobs[k].pc \in {"running", "writing"}

\* C25: a job is started only when it is at the head of a non-empty queue
\* and activeTasks < currentConcurrency at the moment it is taken: a step
\* that starts n jobs takes the first n waiting jobs, each at a count below
\* the limit. So while activeTasks is not below the limit, also after the
\* feedback loop has lowered the limit, no job starts.
C25_Step ==
    LET handled == \E j \in JobIds : jobs[j].pc = "settled" /\ jobs'[j].pc = "finished"
        pre == activeTasks - (IF handled THEN 1 ELSE 0)
        waiting == queue \o [i \in 1..(Len(jobs') - Len(jobs)) |-> Len(jobs) + i]
        started == { j \in 1..Len(jobs') :
                       /\ j > Len(jobs) \/ jobs[j].pc = "queued"
                       /\ jobs'[j].pc # "queued" }
        n == Cardinality(started)
    IN /\ started # {} =>
             /\ n <= Len(waiting)
             /\ started = { waiting[i] : i \in 1..n }
             /\ activeTasks' = pre + n
             /\ currentConcurrency' = currentConcurrency
             /\ pre + n <= currentConcurrency
       /\ pre >= currentConcurrency => started = {}
       /\ queue' # queue => Len(queue') = Len(waiting) - n

C25_AdmissionGuard == [][C25_Step]_vars

\* the fifth completion lowered the limit from 2 to 1 with two jobs running;
\* one of them has finished since, its dispatch pass found activeTasks = 1,
\* not below the limit, and the seventh job still waits
C25_Witness ==
    /\ driver = "load"
    /\ currentConcurrency = 1
    /\ Len(durations) = adjustmentInterval
    /\ activeTasks = 1
    /\ jobs[5].pc = "finished"
    /\ jobs[6].pc = "running"
    /\ jobs[7].pc = "queued"
    /\ queue = <<7>>

====
